---- MODULE Spec2Model ----
(***************************************************************************)
(* Model of portal/capstone/models.py: the Simulator run, its lifecycle    *)
(* status, the schedule of DueDatapoint rows it generates, and the         *)
(* pollers, operator and dispatch workers that act on it.                  *)
(*                                                                         *)
(* Time is counted in microseconds, the resolution of Python's datetime    *)
(* and timedelta.  Nullable columns hold None (<<>>) or Some(v) (<<v>>).   *)
(***************************************************************************)
EXTENDS Integers, Sequences, FiniteSets, Bags, TLC

None == <<>>
Some(v) == <<v>>
Val(o) == o[1]

(***************************************************************************)
(* Bounds of the model.                                                    *)
(***************************************************************************)
MaxDatapoints == 2
MaxStudents == 2
MaxSeconds == 2
NumPollers == 2
MaxDeliveries == 2

(***************************************************************************)
(* Python arithmetic.                                                      *)
(***************************************************************************)
\* timedelta resolution: microseconds per second (timedelta.total_seconds)
TicksPerSecond == 1000000

Abs(n) == IF n < 0 THEN 0 - n ELSE n
Sign(n) == IF n < 0 THEN 0 - 1 ELSE 1

\* timedelta / int: the quotient rounded to the nearest microsecond, ties to
\* the even microsecond (n > 0; Python raises ZeroDivisionError for n = 0)
TimedeltaDiv(td, n) ==
    LET q == td \div n
        r == td % n
    IN  IF 2 * r > n THEN q + 1
        ELSE IF 2 * r < n THEN q
        ELSE IF q % 2 = 0 THEN q ELSE q + 1

(***************************************************************************)
(* Naturals below 2^72 as three limbs in base 2^24, least significant      *)
(* first; they carry the 53-bit significands of Python floats.             *)
(***************************************************************************)
LimbBits == 24
Base == 16777216
MantBits == 53

RECURSIVE IntBitLen(_)
IntBitLen(n) == IF n = 0 THEN 0 ELSE 1 + IntBitLen(n \div 2)

\* the limbs of v1 + v2 * Base + v3 * Base^2, carries (or borrows) propagated
BigCarry(v1, v2, v3) ==
    LET w2 == v2 + (v1 \div Base)
    IN  <<v1 % Base, w2 % Base, v3 + (w2 \div Base)>>

BigFromInt(n) == BigCarry(n, 0, 0)
BigAdd(a, b) == BigCarry(a[1] + b[1], a[2] + b[2], a[3] + b[3])
BigSub(a, b) == BigCarry(a[1] - b[1], a[2] - b[2], a[3] - b[3])
\* a * k for 0 <= k <= 64
BigMulSmall(a, k) == BigCarry(a[1] * k, a[2] * k, a[3] * k)
BigIsZero(a) == a[1] = 0 /\ a[2] = 0 /\ a[3] = 0
BigIsOdd(a) == a[1] % 2 = 1

\* a * k for any natural k
RECURSIVE BigMulInt(_, _)
BigMulInt(a, k) ==
    IF k <= 64 THEN BigMulSmall(a, k)
    ELSE BigAdd(BigMulSmall(BigMulInt(a, k \div 64), 64),
                BigMulSmall(a, k % 64))

\* -1, 0 or 1 as a < b, a = b or a > b
BigCmp(a, b) ==
    IF a[3] # b[3] THEN (IF a[3] > b[3] THEN 1 ELSE 0 - 1)
    ELSE IF a[2] # b[2] THEN (IF a[2] > b[2] THEN 1 ELSE 0 - 1)
    ELSE IF a[1] # b[1] THEN (IF a[1] > b[1] THEN 1 ELSE 0 - 1)
    ELSE 0

BigBitLen(a) ==
    IF a[3] # 0 THEN 2 * LimbBits + IntBitLen(a[3])
    ELSE IF a[2] # 0 THEN LimbBits + IntBitLen(a[2])
    ELSE IntBitLen(a[1])

\* a * 2^n
RECURSIVE BigShl(_, _)
BigShl(a, n) ==
    IF n = 0 THEN a
    ELSE IF n >= LimbBits THEN BigShl(<<0, a[1], a[2]>>, n - LimbBits)
    ELSE IF n >= 6 THEN BigShl(BigMulSmall(a, 64), n - 6)
    ELSE BigShl(BigMulSmall(a, 2), n - 1)

(***************************************************************************)
(* Python floats (IEEE 754 binary64, round to nearest, ties to even):      *)
(* sign * m * 2^e with 2^52 <= m < 2^53, or a signed zero (m = 0).         *)
(***************************************************************************)
FloatZero(sign) == [sign |-> sign, m |-> BigFromInt(0), e |-> 0]
FloatIsZero(f) == BigIsZero(f.m)

\* one step of the long division by q: the next quotient bit is appended to
\* st.m and st.r becomes the remainder after it
DivStep(st, q) ==
    LET r2 == BigAdd(st.r, st.r)
        m2 == BigAdd(st.m, st.m)
    IN  IF BigCmp(r2, q) >= 0
        THEN [r |-> BigSub(r2, q), m |-> BigAdd(m2, BigFromInt(1))]
        ELSE [r |-> r2, m |-> m2]

\* n further steps of the long division by q from the state st.  The state
\* before the last step is bound by a quantifier so that it is computed
\* before that step.
RECURSIVE DivBits(_, _, _)
DivBits(st, q, n) ==
    IF n = 0 THEN st
    ELSE CHOOSE out \in {DivStep(prev, q) : prev \in {DivBits(st, q, n - 1)}} :
             TRUE

\* the long division of p by q, both scaled so that q <= p < 2q: the 53
\* quotient bits (m) and the remainder (r) after them, in four runs of 13
\* bits after the leading one
LongDiv(p, q) ==
    CHOOSE s4 \in {DivBits(s3, q, 13) : s3 \in
                {DivBits(s2, q, 13) : s2 \in
                    {DivBits(s1, q, 13) : s1 \in
                        {DivBits(s0, q, 13) : s0 \in
                            {[r |-> BigSub(p, q), m |-> BigFromInt(1)]}}}}} :
        TRUE

\* p / q correctly rounded to 53 bits, for naturals p > 0 and q > 0
RoundDiv(sign, p, q) ==
    LET s0 == BigBitLen(p) - BigBitLen(q)
        pa == IF s0 < 0 THEN BigShl(p, 0 - s0) ELSE p
        qa == IF s0 > 0 THEN BigShl(q, s0) ELSE q
        low == BigCmp(pa, qa) < 0
        pb == IF low THEN BigAdd(pa, pa) ELSE pa
        s == IF low THEN s0 - 1 ELSE s0
        d == CHOOSE st \in {LongDiv(pp, qq) :
                                pp \in {pb}, qq \in {qa}} : TRUE
        half == BigCmp(BigAdd(d.r, d.r), qa)
        up == half > 0 \/ (half = 0 /\ BigIsOdd(d.m))
        m1 == IF up THEN BigAdd(d.m, BigFromInt(1)) ELSE d.m
        over == BigBitLen(m1) > MantBits
    IN  [sign |-> sign,
         m |-> IF over THEN BigShl(BigFromInt(1), MantBits - 1) ELSE m1,
         e |-> IF over THEN s - (MantBits - 1) + 1 ELSE s - (MantBits - 1)]

\* int / int (true division), b # 0
IntTrueDiv(a, b) ==
    IF a = 0 THEN FloatZero(Sign(b))
    ELSE RoundDiv(Sign(a) * Sign(b), BigFromInt(Abs(a)), BigFromInt(Abs(b)))

\* int / float, f nonzero (Python raises ZeroDivisionError for a zero f)
IntDivFloat(a, f) ==
    IF a = 0 THEN FloatZero(f.sign)
    ELSE LET r == RoundDiv(Sign(a) * f.sign, BigFromInt(Abs(a)), f.m)
         IN  [r EXCEPT !.e = r.e - f.e]

\* int * float
IntMulFloat(a, f) ==
    IF a = 0 \/ FloatIsZero(f) THEN FloatZero(Sign(a) * f.sign)
    ELSE LET r == RoundDiv(Sign(a) * f.sign, BigMulInt(f.m, Abs(a)),
                           BigFromInt(1))
         IN  [r EXCEPT !.e = r.e + f.e]

\* the comparison of the magnitudes |a| and |f|, f nonzero: -1, 0 or 1
MagCmp(a, f) ==
    IF a = 0 \/ f.e >= 0 THEN 0 - 1
    ELSE IF IntBitLen(Abs(a)) - f.e > MantBits THEN 1
    ELSE BigCmp(BigShl(BigFromInt(Abs(a)), 0 - f.e), f.m)

\* int < float
IntLessFloat(a, f) ==
    IF FloatIsZero(f) THEN a < 0
    ELSE IF f.sign > 0 THEN a < 0 \/ MagCmp(a, f) < 0
    ELSE a < 0 /\ MagCmp(a, f) > 0

(***************************************************************************)
(* The run and its collaborators.                                          *)
(***************************************************************************)
VARIABLES
    now,             \* datetime.now(timezone.utc), in microseconds
    settings,        \* django.conf.settings: BLOCK_SIZE, PRODUCER_INTERVAL
    ends,            \* Simulator.ends
    datapoints,      \* the Datapoint rows of the run, in queryset order
    student_apps,    \* the StudentApp rows of the capstone: student -> app_name
    db,              \* the stored Simulator row: status, started, interval
    due_datapoints,  \* the stored DueDatapoint rows of the run (a bag)
    pc,              \* where each poller is in its call
    obj,             \* each poller's in-memory Simulator instance
    frame,           \* each poller's locals in create_due_datapoints
    call,            \* each poller's current call: the operation, the status
                     \* it observed and its outcome
    pre,             \* the stored state the call in flight was made on
    frozen,          \* whether the run has been 'ended'
    cap              \* inputs and outcome of one capacity check on its own

vars == <<now, settings, ends, datapoints, student_apps, db, due_datapoints,
          pc, obj, frame, call, pre, frozen, cap>>

Pollers == 1..NumPollers
Students == 1..MaxStudents

\* the instants the clock takes: one microsecond and whole seconds
Instants == {0, 1} \cup {s * TicksPerSecond : s \in 1..MaxSeconds}

\* the values of settings.BLOCK_SIZE the deployment may have
BlockSizes == {0, 2}

\* Simulator.STATUS_CHOICES
STATUS_CHOICES == {"stopped", "start", "started", "paused", "reset", "ended"}
\* Simulator.status default
StatusDefault == "queued"
\* DueDatapoint.STATE_CHOICES
STATE_CHOICES == {"due", "queued", "success", "fail"}

\* Simulator.endpoint, as the pieces of the template
endpoint == <<"https://", "{app_name}", ".herokuapp.com/predict">>

\* str.format(app_name=...): every placeholder becomes the application name
Format(template, app_name) ==
    [i \in DOMAIN template |->
        IF template[i] = "{app_name}" THEN app_name ELSE template[i]]

\* the application name of a student who has deployed one
AppName(student) == "app" \o ToString(student)

\* the enrollments in which the first k students have deployed an application
Enrollments ==
    {[s \in Students |-> IF s <= k THEN AppName(s) ELSE ""] :
        k \in 0..MaxStudents}

\* how a call ends: by returning or by raising exc at a line of models.py
Returned == [exc |-> "none", line |-> 0]
Running == [exc |-> "running", line |-> 0]
Raised(exc, line) == [exc |-> exc, line |-> line]

NoRow == [status |-> "", started |-> None, interval |-> None]
NoFrame == [starts |-> 0, todo |-> <<>>]
Snapshot == [status |-> db.status, started |-> db.started,
             interval |-> db.interval, due |-> due_datapoints]
NoSnapshot == [status |-> "", started |-> None, interval |-> None,
               due |-> EmptyBag]
NoCall == [op |-> "none", observed |-> "", outcome |-> Returned,
           args |-> <<>>]
NoCap == [block_size |-> 0, producer_interval |-> 0, count |-> 0,
          interval |-> 0, result |-> "none"]

\* a filter that forgets .exclude(app_name='')
EligibleNoExclude(apps) == [i \in 1..MaxStudents |-> i]

\* StudentApp.objects.filter(capstone=...).exclude(app_name=''), in pk order
RECURSIVE EligibleFrom(_, _)
EligibleFrom(apps, s) ==
    IF s > MaxStudents THEN <<>>
    ELSE (IF apps[s] # "" THEN <<s>> ELSE <<>>) \o EligibleFrom(apps, s + 1)

Eligible(apps) == EligibleFrom(apps, 1)

\* timedelta.total_seconds()
total_seconds(interval) == IntTrueDiv(interval, TicksPerSecond)

\* count * (PRODUCER_INTERVAL / interval.total_seconds()), interval # 0
required_requests_per_cycle(count, producer_interval, interval) ==
    IntMulFloat(count, IntDivFloat(producer_interval, total_seconds(interval)))

\* settings.BLOCK_SIZE < required_requests_per_cycle
CapacityExceeded(block_size, producer_interval, count, interval) ==
    IntLessFloat(block_size,
                 required_requests_per_cycle(count, producer_interval,
                                             interval))

\* lines 72-88 of create_due_datapoints: the exception raised, or Returned
PlanOutcome(ends_, starts, n, count, conf) ==
    IF ends_ = None THEN Raised("TypeError", 72)
    ELSE IF n = 0 THEN Raised("ZeroDivisionError", 72)
    ELSE LET interval == TimedeltaDiv(Val(ends_) - starts, n)
         IN  IF interval = 0 THEN Raised("ZeroDivisionError", 79)
             ELSE IF CapacityExceeded(conf.BLOCK_SIZE, conf.PRODUCER_INTERVAL,
                                      count, interval)
                  THEN Raised("TypeError", 83)
             ELSE Returned

\* a loop that advances due before it builds the row
RECURSIVE DueRowsLate(_, _, _, _, _)
DueRowsLate(dps, due, interval, student, url) ==
    IF dps = <<>> THEN {}
    ELSE {[student |-> student, datapoint |-> Head(dps),
           due |-> due + interval, url |-> url, state |-> "due",
           response |-> None]}
         \cup DueRowsLate(Tail(dps), due + interval, interval, student, url)

\* the loop of add_student_app over the data points
RECURSIVE DueRows(_, _, _, _, _)
DueRows(dps, due, interval, student, url) ==
    IF dps = <<>> THEN {}
    ELSE {[student |-> student, datapoint |-> Head(dps), due |-> due,
           url |-> url, state |-> "due", response |-> None]}
         \cup DueRows(Tail(dps), due + interval, interval, student, url)

\* add_student_app with a starting point: the rows it bulk-creates
add_student_app(ends_, student, app_name, dps, starts) ==
    DueRows(dps, starts, TimedeltaDiv(Val(ends_) - starts, Len(dps)),
            student, Format(endpoint, app_name))

(***************************************************************************)
(* Initial state: a newly created run with its data points, end time and   *)
(* enrollments (one StudentApp per student), and the deployment settings.  *)
(***************************************************************************)
Init ==
    /\ now = 0
    /\ settings \in [BLOCK_SIZE : BlockSizes, PRODUCER_INTERVAL : {1}]
    /\ ends \in {None} \cup {Some(t) : t \in Instants \ {0}}
    /\ datapoints \in {[i \in 1..n |-> i] : n \in 0..MaxDatapoints}
    /\ student_apps \in Enrollments
    /\ db = [status |-> StatusDefault, started |-> None, interval |-> None]
    /\ due_datapoints = EmptyBag
    /\ pc = [p \in Pollers |-> "idle"]
    /\ obj = [p \in Pollers |-> NoRow]
    /\ frame = [p \in Pollers |-> NoFrame]
    /\ call = [p \in Pollers |-> NoCall]
    /\ pre = NoSnapshot
    /\ frozen = FALSE
    /\ cap = NoCap

config == <<settings, ends, datapoints, student_apps, cap>>

(***************************************************************************)
(* The poller: loads the run and calls start() or reset() on it.           *)
(***************************************************************************)
Load(p) ==
    /\ pc[p] = "idle"
    /\ pc' = [pc EXCEPT ![p] = "loaded"]
    /\ obj' = [obj EXCEPT ![p] = db]
    /\ UNCHANGED <<now, config, db, due_datapoints, frame, call>>

Finish(p, outcome) ==
    /\ pc' = [pc EXCEPT ![p] = "done"]
    /\ frame' = [frame EXCEPT ![p] = NoFrame]
    /\ call' = [call EXCEPT ![p].outcome = outcome]

\* a guard that also fires on a run that is already started
StartGuardStarted(status) == status \in {"start", "started"}

\* Simulator.start, line 55
StartGuard(status) == status = "start"

start(p) ==
    /\ pc[p] = "loaded"
    /\ IF StartGuard(obj[p].status)
       THEN /\ obj' = [obj EXCEPT ![p].started = Some(now),
                                  ![p].status = "started"]
            /\ db' = obj'[p]
            /\ pc' = [pc EXCEPT ![p] = "create_due_datapoints"]
            /\ frame' = [frame EXCEPT ![p].starts = now]
            /\ call' = [call EXCEPT ![p] = [op |-> "start",
                                            observed |-> obj[p].status,
                                            outcome |-> Running,
                                            args |-> <<>>]]
       ELSE /\ pc' = [pc EXCEPT ![p] = "done"]
            /\ call' = [call EXCEPT ![p] = [op |-> "start",
                                            observed |-> obj[p].status,
                                            outcome |-> Returned,
                                            args |-> <<>>]]
            /\ UNCHANGED <<obj, db, frame>>
    /\ UNCHANGED <<now, config, due_datapoints>>

\* a delete that removes nothing
DeleteNone(due) == due

\* self.due_datapoints.all().delete(), lines 66 and 130
DeleteAll(due) == EmptyBag

create_due_datapoints(p) ==
    /\ pc[p] = "create_due_datapoints"
    /\ due_datapoints' = DeleteAll(due_datapoints)
    /\ pc' = [pc EXCEPT ![p] = "plan"]
    /\ UNCHANGED <<now, config, db, obj, frame, call>>

\* create_due_datapoints, lines 67-91: the interval, the capacity check and
\* the save of the interval
plan(p) ==
    /\ pc[p] = "plan"
    /\ LET starts == frame[p].starts
           todo == Eligible(student_apps)
           outcome == PlanOutcome(ends, starts, Len(datapoints), Len(todo),
                                  settings)
       IN  IF outcome # Returned
           THEN /\ Finish(p, outcome)
                /\ UNCHANGED <<obj, db>>
           ELSE /\ obj' = [obj EXCEPT ![p].interval =
                             Some(TimedeltaDiv(Val(ends) - starts,
                                               Len(datapoints)))]
                /\ db' = obj'[p]
                /\ IF todo = <<>>
                   THEN Finish(p, Returned)
                   ELSE /\ pc' = [pc EXCEPT ![p] = "add_student_app"]
                        /\ frame' = [frame EXCEPT ![p].todo = todo]
                        /\ UNCHANGED call
    /\ UNCHANGED <<now, config, due_datapoints>>

\* create_due_datapoints, lines 93-96: one turn of the loop, which calls
\* add_student_app (lines 98-122) and bulk-creates the student's rows
\* a write that replaces the stored rows by the batch
bulk_replace(due, rows) == SetToBag(rows)

bulk_create(due, rows) == due (+) SetToBag(rows)

create_student_rows(p) ==
    /\ pc[p] = "add_student_app"
    /\ LET student == Head(frame[p].todo)
           rows == add_student_app(ends, student, student_apps[student],
                                   datapoints, frame[p].starts)
       IN  due_datapoints' = bulk_create(due_datapoints, rows)
    /\ IF Tail(frame[p].todo) = <<>>
       THEN Finish(p, Returned)
       ELSE /\ frame' = [frame EXCEPT ![p].todo = Tail(@)]
            /\ UNCHANGED <<pc, call>>
    /\ UNCHANGED <<now, config, db, obj>>

\* DueDatapoint.objects.bulk_create raises: the database rejects the batch of
\* line 122, the exception leaves add_student_app and create_due_datapoints
bulk_create_fails(p) ==
    /\ pc[p] = "add_student_app"
    /\ Finish(p, Raised("DatabaseError", 122))
    /\ UNCHANGED <<now, config, db, obj, due_datapoints>>

\* add_student_app, line 102: (self.ends - starts) / datapoints.count()
AddStudentAppOutcome(ends_, starts, n) ==
    IF ends_ = None \/ starts = None THEN Raised("TypeError", 102)
    ELSE IF n = 0 THEN Raised("ZeroDivisionError", 102)
    ELSE Returned

\* the student who deploys next: students deploy in the order of their keys
NextStudent(apps) ==
    {s \in Students : apps[s] = "" /\ \A r \in 1..(s - 1) : apps[r] # ""}

\* a participant joins late: the student's StudentApp gets its app_name and
\* add_student_app (lines 98-122) is called for that participant alone, with
\* starts left to its default (None) or given as the current time
late_add_student_app(p) ==
    /\ pc[p] = "idle"
    /\ \E s \in NextStudent(student_apps), starts \in {None, Some(now)} :
          LET outcome == AddStudentAppOutcome(ends, starts, Len(datapoints))
          IN  /\ student_apps' = [student_apps EXCEPT ![s] = AppName(s)]
              /\ due_datapoints' =
                    IF outcome = Returned
                    THEN bulk_create(due_datapoints,
                                     add_student_app(ends, s, AppName(s),
                                                     datapoints, Val(starts)))
                    ELSE due_datapoints
              /\ call' = [call EXCEPT ![p] = [op |-> "add_student_app",
                                              observed |-> db.status,
                                              outcome |-> outcome,
                                              args |-> <<s, starts>>]]
    /\ pc' = [pc EXCEPT ![p] = "done"]
    /\ UNCHANGED <<now, settings, ends, datapoints, cap, db, obj, frame>>

\* Simulator.reset, lines 127-130
reset(p) ==
    /\ pc[p] = "loaded"
    /\ call' = [call EXCEPT ![p] = [op |-> "reset",
                                    observed |-> obj[p].status,
                                    outcome |-> IF obj[p].status = "reset"
                                                THEN Running ELSE Returned,
                                    args |-> <<>>]]
    /\ IF obj[p].status = "reset"
       THEN /\ due_datapoints' = DeleteAll(due_datapoints)
            /\ pc' = [pc EXCEPT ![p] = "reset_save"]
       ELSE /\ pc' = [pc EXCEPT ![p] = "done"]
            /\ UNCHANGED due_datapoints
    /\ UNCHANGED <<now, config, db, obj, frame>>

\* Simulator.reset, lines 131-132
reset_save(p) ==
    /\ pc[p] = "reset_save"
    /\ obj' = [obj EXCEPT ![p].status = "stopped"]
    /\ db' = obj'[p]
    /\ Finish(p, Returned)
    /\ UNCHANGED <<now, config, due_datapoints>>

\* the call is over: the poller drops the instance
Return(p) ==
    /\ pc[p] = "done"
    /\ pc' = [pc EXCEPT ![p] = "idle"]
    /\ obj' = [obj EXCEPT ![p] = NoRow]
    /\ call' = [call EXCEPT ![p] = NoCall]
    /\ UNCHANGED <<now, config, db, due_datapoints, frame>>

(***************************************************************************)
(* The environment: the clock, the operator and the dispatch workers.      *)
(***************************************************************************)
Tick ==
    /\ \E t \in Instants : t > now /\ now' = t
    /\ UNCHANGED <<config, db, due_datapoints, pc, obj, frame, call>>

SetStatus(from, to) ==
    /\ db.status \in from
    /\ db' = [db EXCEPT !.status = to]
    /\ UNCHANGED <<now, config, due_datapoints, pc, obj, frame, call>>

OperatorStart == SetStatus({"stopped", "paused"}, "start")
OperatorPause == SetStatus({"started"}, "paused")
OperatorEnd == SetStatus({"started"}, "ended")
OperatorReset == SetStatus(STATUS_CHOICES \cup {StatusDefault}, "reset")

Replace(due, row, new) == (due (-) SetToBag({row})) (+) SetToBag({new})

\* the rows in a state, and the first of them in (due, student, datapoint)
\* order: workers take rows in that order
InState(state) == {row \in BagToSet(due_datapoints) : row.state = state}
Before(r1, r2) ==
    \/ r1.due < r2.due
    \/ r1.due = r2.due /\ r1.student < r2.student
    \/ r1.due = r2.due /\ r1.student = r2.student
          /\ r1.datapoint <= r2.datapoint
IsFirst(row, rows) == \A other \in rows : Before(row, other)

\* a worker claims the first row that is due: due -> queued.  The workers
\* get through at most MaxDeliveries rows of a schedule.
WorkerClaim ==
    /\ db.status = "started"
    /\ Cardinality(BagToSet(due_datapoints) \ InState("due")) < MaxDeliveries
    /\ \E row \in InState("due") :
          /\ IsFirst(row, InState("due"))
          /\ row.due <= now
          /\ due_datapoints' = Replace(due_datapoints, row,
                                       [row EXCEPT !.state = "queued"])
    /\ UNCHANGED <<now, config, db, pc, obj, frame, call>>

\* a worker reports the outcome of a queued row: queued -> success | fail
WorkerReport ==
    /\ \E row \in InState("queued") :
          /\ IsFirst(row, InState("queued"))
          /\ \E res \in {"success", "fail"} :
                due_datapoints' =
                    Replace(due_datapoints, row,
                            [row EXCEPT !.state = res,
                                        !.response =
                                            Some(IF res = "success"
                                                 THEN 200 ELSE 500)])
    /\ UNCHANGED <<now, config, db, pc, obj, frame, call>>

Quiet == \A p \in Pollers : pc[p] = "idle"

Environment ==
    \/ Tick
    \/ OperatorStart
    \/ OperatorPause
    \/ OperatorEnd
    \/ OperatorReset
    \/ WorkerClaim
    \/ WorkerReport

PollerStep(p) ==
    \/ start(p)
    \/ create_due_datapoints(p)
    \/ plan(p)
    \/ create_student_rows(p)
    \/ bulk_create_fails(p)
    \/ reset(p)
    \/ reset_save(p)
    \/ Return(p)

\* pre holds the stored state at the moment start() or reset() is called
Record(p) ==
    pre' = IF pc[p] = "loaded" THEN Snapshot
           ELSE IF pc[p] = "done" THEN NoSnapshot
           ELSE pre

\* frozen records that the status has been 'ended'
Freeze == frozen' = (frozen \/ db'.status = "ended")

\* one transition in flight at a time: calls are serialized, and so it does
\* not matter which poller makes them
Next ==
    \/ Quiet /\ Environment /\ UNCHANGED pre /\ Freeze
    \/ \E p \in {1} : Quiet /\ Load(p) /\ UNCHANGED pre /\ Freeze
    \/ \E p \in Pollers : PollerStep(p) /\ Record(p) /\ Freeze

Spec == Init /\ [][Next]_vars

\* a run that is started once, with participants who join late while it is
\* 'started'.  The operator has asked for the start of a stopped run that has
\* a valid window.
LateInit ==
    /\ now = 0
    /\ settings = [BLOCK_SIZE |-> 2, PRODUCER_INTERVAL |-> 1]
    /\ ends = Some(MaxSeconds * TicksPerSecond)
    /\ datapoints \in {[i \in 1..n |-> i] : n \in 0..MaxDatapoints}
    /\ student_apps \in Enrollments
    /\ db = [status |-> "start", started |-> None, interval |-> None]
    /\ due_datapoints = EmptyBag
    /\ pc = [p \in Pollers |-> "idle"]
    /\ obj = [p \in Pollers |-> NoRow]
    /\ frame = [p \in Pollers |-> NoFrame]
    /\ call = [p \in Pollers |-> NoCall]
    /\ pre = NoSnapshot
    /\ frozen = FALSE
    /\ cap = NoCap

LateStep(p) ==
    \/ start(p)
    \/ create_due_datapoints(p)
    \/ plan(p)
    \/ create_student_rows(p)
    \/ bulk_create_fails(p)
    \/ Return(p)

LateNext ==
    \/ /\ Quiet
       /\ (Tick \/ WorkerClaim \/ WorkerReport)
       /\ UNCHANGED <<pre, frozen>>
    \/ \E p \in {1} : Quiet /\ Load(p) /\ UNCHANGED <<pre, frozen>>
    \/ \E p \in {1} :
          /\ Quiet
          /\ db.status = "started"
          /\ late_add_student_app(p)
          /\ pre' = Snapshot
          /\ UNCHANGED frozen
    \/ \E p \in Pollers : LateStep(p) /\ Record(p) /\ UNCHANGED frozen

LateSpec == LateInit /\ [][LateNext]_vars

\* no serialization, as in the code: the steps of the pollers' calls and the
\* operator's commands interleave freely.  The run has a valid window and the
\* clock and the workers stand still.
Operator ==
    \/ OperatorStart
    \/ OperatorPause
    \/ OperatorEnd
    \/ OperatorReset

ConcInit ==
    /\ Init
    /\ ends = Some(MaxSeconds * TicksPerSecond)
    /\ settings.BLOCK_SIZE = 2

ConcNext ==
    \/ Operator /\ UNCHANGED <<pre, frozen>>
    \/ \E p \in Pollers : Load(p) /\ UNCHANGED <<pre, frozen>>
    \/ \E p \in Pollers : PollerStep(p) /\ UNCHANGED <<pre, frozen>>

ConcSpec == ConcInit /\ [][ConcNext]_vars

(***************************************************************************)
(* The capacity check on its own: inputs drawn from CapInputs, checked as  *)
(* create_due_datapoints checks them.                                      *)
(***************************************************************************)
CapBlockSizes == {10, 100}
CapProducerIntervals == {1, 5}
CapCounts == {23, 46, 150, 200, 210}
CapIntervals == {1000000, 2300000, 10000000}

CapInit ==
    /\ now = 0
    /\ settings = [BLOCK_SIZE |-> 2, PRODUCER_INTERVAL |-> 1]
    /\ ends = None
    /\ datapoints = <<>>
    /\ student_apps = [s \in Students |-> ""]
    /\ db = [status |-> StatusDefault, started |-> None, interval |-> None]
    /\ due_datapoints = EmptyBag
    /\ pc = [p \in Pollers |-> "idle"]
    /\ obj = [p \in Pollers |-> NoRow]
    /\ frame = [p \in Pollers |-> NoFrame]
    /\ call = [p \in Pollers |-> NoCall]
    /\ pre = NoSnapshot
    /\ frozen = FALSE
    /\ cap \in [block_size : CapBlockSizes,
                producer_interval : CapProducerIntervals,
                count : CapCounts,
                interval : CapIntervals,
                result : {"pending"}]

CheckCapacity ==
    /\ cap.result = "pending"
    /\ cap' = [cap EXCEPT !.result =
                  IF CapacityExceeded(cap.block_size, cap.producer_interval,
                                      cap.count, cap.interval)
                  THEN "fails" ELSE "passes"]
    /\ UNCHANGED <<now, settings, ends, datapoints, student_apps, db,
                   due_datapoints, pc, obj, frame, call, pre, frozen>>

CapSpec == CapInit /\ [][CheckCapacity]_vars

(***************************************************************************)
(* Properties.                                                             *)
(***************************************************************************)
N == Len(datapoints)
M == Cardinality({s \in Students : student_apps[s] # ""})
Rows == BagToSet(due_datapoints)

\* poller p has come to the end of a call of op that observed status
Ended(p, op, status) ==
    /\ pc[p] = "done"
    /\ call[p].op = op
    /\ call[p].observed = status

\* ... and the call returned without raising
Succeeded(p, op, status) ==
    /\ Ended(p, op, status)
    /\ call[p].outcome = Returned

\* C1: when start() observes 'start' and the capacity check fails, the
\* transition is not applied: the status is still 'start', and 'started',
\* 'interval' and the due-items are as they were before the call.
C1_CapacityFailureAppliesNothing ==
    \A p \in Pollers :
        Ended(p, "start", "start") /\ call[p].outcome = Raised("TypeError", 83)
        => /\ db.status = "start"
           /\ db.started = pre.started
           /\ db.interval = pre.interval
           /\ due_datapoints = pre.due

\* C2: whatever the run's status and due-items were, once the status is
\* 'reset' and reset() has run, the run has no due-items and is 'stopped'.
C2_ResetLeavesNoDueItems ==
    \A p \in Pollers :
        Ended(p, "reset", "reset")
        => due_datapoints = EmptyBag /\ db.status = "stopped"

C2_Witness ==
    \E p \in Pollers :
        /\ Ended(p, "reset", "reset")
        /\ pre.due # EmptyBag
        /\ \E row \in BagToSet(pre.due) : row.state # "due"

\* C3: start() on a run that is already 'started' changes nothing: status,
\* 'started', interval and the due-items with their states and responses.
C3_StartOnStartedIsNoOp ==
    \A p \in Pollers :
        Ended(p, "start", "started") => Snapshot = pre

C3_Witness ==
    \E p \in Pollers :
        /\ Ended(p, "start", "started")
        /\ \E row \in Rows : row.response # None
        /\ \E row \in Rows : row.state = "due"

\* C4: two pollers that both run start() on the same run in status 'start'
\* leave exactly N*M due-items, whatever the interleaving of their steps.
C4_ConcurrentStartsGenerateOnce ==
    (\A p \in Pollers : Succeeded(p, "start", "start"))
    => BagCardinality(due_datapoints) = N * M

\* C5: a reset that runs while a start is in flight is not undone: when no
\* call is in flight and the stored status is 'stopped', the run has no
\* due-items.
C5_StoppedRunHasNoDueItems ==
    (\A p \in Pollers : pc[p] \in {"idle", "loaded", "done"})
        /\ db.status = "stopped"
    => due_datapoints = EmptyBag

\* C6: after a successful start() with N >= 1 data points and M eligible
\* enrollments there are exactly N*M due-items, one for every pair of an
\* eligible participant and a data point, none twice, and none for an
\* enrollment whose app_name is empty.
C6_StartGeneratesOnePerPair ==
    \A p \in Pollers :
        Succeeded(p, "start", "start") /\ N >= 1
        => /\ BagCardinality(due_datapoints) = N * M
           /\ \A row \in Rows : CopiesIn(row, due_datapoints) = 1
           /\ \A r1, r2 \in Rows :
                 r1.student = r2.student /\ r1.datapoint = r2.datapoint
                 => r1 = r2
           /\ \A s \in Students : student_apps[s] # "" =>
                 \A d \in 1..N :
                    \E row \in Rows : row.student = s /\ row.datapoint = d
           /\ \A row \in Rows : student_apps[row.student] # ""

C6_Witness ==
    \E p \in Pollers :
        /\ Succeeded(p, "start", "start")
        /\ N >= 2
        /\ M >= 1
        /\ \E s \in Students : student_apps[s] = ""

\* C7: after a successful start() at t with ends > t, the due-items of every
\* participant, in data-point order, are due at t, t+d, ..., t+(N-1)d with
\* d = (ends - t)/N (a timedelta, so to the microsecond): the first is the
\* run's 'started', d > 0, and all participants have the same due-times.
C7_DueTimesAreArithmetic ==
    \A p \in Pollers :
        Succeeded(p, "start", "start") /\ ends # None /\ N >= 1
            /\ Val(ends) > Val(db.started)
        => LET t == Val(db.started)
               d == TimedeltaDiv(Val(ends) - t, N)
           IN  /\ d > 0
               /\ \A row \in Rows : row.due = t + (row.datapoint - 1) * d
               /\ \A row \in Rows : row.datapoint = 1 => row.due = t
               /\ \A r1, r2 \in Rows :
                     /\ r1.datapoint = r2.datapoint => r1.due = r2.due
                     /\ r1.datapoint < r2.datapoint => r1.due < r2.due

C7_Witness ==
    \E p \in Pollers :
        /\ Succeeded(p, "start", "start")
        /\ ends # None
        /\ Val(ends) > Val(db.started)
        /\ (Val(ends) - Val(db.started)) % N # 0
        /\ \E r1, r2 \in Rows :
              r1.student # r2.student /\ r1.datapoint = 2 /\ r2.datapoint = 2

\* C8: the capacity check fails if and only if BLOCK_SIZE is less than
\* participantCount * PRODUCER_INTERVAL / cycleInterval (cycleInterval in
\* seconds, here in microseconds); at equality it passes.
C8_CapacityFailsIffBelowRequired ==
    cap.result \in {"fails", "passes"}
    => (cap.result = "fails"
        <=> cap.block_size * cap.interval
              < cap.count * cap.producer_interval * TicksPerSecond)

\* C9: start() on a run with no data points raises, creates no due-items and
\* blocks the transition: the status is not 'started' and the due-items are
\* as they were.
C9_NoDatapointsFailsClosed ==
    \A p \in Pollers :
        Ended(p, "start", "start") /\ N = 0
        => /\ call[p].outcome # Returned
           /\ db.status # "started"
           /\ due_datapoints = pre.due

\* C10: start() on a run whose end is not after the start instant raises and
\* creates no due-items.
C10_InvalidWindowIsRejected ==
    \A p \in Pollers :
        Ended(p, "start", "start") /\ N >= 1 /\ ends # None
            /\ Val(ends) <= Val(db.started)
        => call[p].outcome # Returned /\ due_datapoints = EmptyBag

\* C11: add_student_app for one late-joining participant on a 'started' run,
\* called without a starting point, returns and creates exactly N due-items
\* for the participant: the first is due at the current time and the next
\* ones follow at the run's stored interval.
C11_LateJoinSchedulesFromNow ==
    \A p \in Pollers :
        Ended(p, "add_student_app", "started") /\ call[p].args[2] = None
            /\ N >= 1 /\ db.interval # None
        => /\ call[p].outcome = Returned
           /\ LET mine == {row \in Rows : row.student = call[p].args[1]}
              IN  /\ Cardinality(mine) = N
                  /\ \A row \in mine :
                        /\ CopiesIn(row, due_datapoints) = 1
                        /\ row.due = now + (row.datapoint - 1)
                                            * Val(db.interval)

\* C12: add_student_app for one participant on a 'started' run leaves the
\* due-items of every other participant as they were (none added, deleted or
\* changed) and leaves the run's status, 'started' and interval as they were.
C12_LateJoinLeavesOthersUntouched ==
    \A p \in Pollers :
        Ended(p, "add_student_app", "started")
        => /\ db.status = pre.status
           /\ db.started = pre.started
           /\ db.interval = pre.interval
           /\ \A row \in Rows \cup BagToSet(pre.due) :
                 row.student # call[p].args[1]
                 => CopiesIn(row, due_datapoints) = CopiesIn(row, pre.due)

C12_Witness ==
    \E p \in Pollers :
        /\ Ended(p, "add_student_app", "started")
        /\ call[p].outcome = Returned
        /\ \E row \in Rows : row.student = call[p].args[1]
        /\ \E row \in Rows :
              row.student # call[p].args[1] /\ row.response # None
        /\ \E row \in Rows :
              row.student # call[p].args[1] /\ row.state = "due"

\* C13: if persisting the due-items fails at any point of
\* create_due_datapoints, the run's due-items afterwards are exactly those it
\* had before start() was called.
C13_GenerationIsAllOrNothing ==
    \A p \in Pollers :
        Ended(p, "start", "start")
            /\ call[p].outcome = Raised("DatabaseError", 122)
        => due_datapoints = pre.due

\* the schedule (the due-items without their states and results) and the
\* due-items that have a recorded result
Schedule ==
    {[student |-> row.student, datapoint |-> row.datapoint, due |-> row.due,
      url |-> row.url] : row \in Rows}
Results == {row \in Rows : row.response # None}

\* C14: once the run has been 'ended', no step of the operator or of start()
\* or reset() adds, deletes or moves a due-item, or loses a recorded result.
C14_EndedScheduleIsFrozen ==
    [][frozen => Schedule' = Schedule /\ Results \subseteq Results']_vars

\* C15: whenever the status is 'started' (and no call is in flight), the
\* stored interval is (ends - started) / count(data points).
C15_StartedRunHasItsInterval ==
    (\A p \in Pollers : pc[p] \in {"idle", "loaded", "done"})
        /\ db.status = "started"
    => /\ ends # None
       /\ db.started # None
       /\ N >= 1
       /\ db.interval = Some(TimedeltaDiv(Val(ends) - Val(db.started), N))

\* C16: in every state, that of a newly created run included, the status is
\* one of the six declared lifecycle states.
C16_StatusIsDeclared == db.status \in STATUS_CHOICES

\* C17: start() on a run with N >= 1 data points, an end after the start
\* instant and no eligible participant returns without error for any
\* BLOCK_SIZE >= 0: the run is 'started', its interval is set and it has no
\* due-items.
C17_ZeroEligibleStartSucceeds ==
    \A p \in Pollers :
        Ended(p, "start", "start") /\ N >= 1 /\ M = 0 /\ ends # None
            /\ Val(ends) > Val(db.started)
        => /\ call[p].outcome = Returned
           /\ db.status = "started"
           /\ db.interval # None
           /\ due_datapoints = EmptyBag

\* the capacity check of the start that has ended fails: BLOCK_SIZE is less
\* than the required requests per cycle
CapacityCheckFails ==
    /\ ends # None
    /\ db.started # None
    /\ N >= 1
    /\ LET interval == TimedeltaDiv(Val(ends) - Val(db.started), N)
       IN  /\ interval # 0
           /\ CapacityExceeded(settings.BLOCK_SIZE,
                               settings.PRODUCER_INTERVAL, M, interval)

\* C18: when the capacity check fails, the error that reaches the caller of
\* start() is the RuntimeError of the raise at line 84.
C18_CapacityErrorReachesCaller ==
    \A p \in Pollers :
        Ended(p, "start", "start") /\ CapacityCheckFails
        => call[p].outcome = Raised("RuntimeError", 84)

\* C19: after every successful start() the due-items are exactly the N*M
\* items of that start, one per eligible participant and data point, all in
\* state 'due' without a response; no due-item that had a result before the
\* call is left.
C19_StartReplacesSchedule ==
    \A p \in Pollers :
        Succeeded(p, "start", "start")
        => /\ BagCardinality(due_datapoints) = N * M
           /\ \A s \in Students : student_apps[s] # "" =>
                 \A d \in 1..N :
                    \E row \in Rows : row.student = s /\ row.datapoint = d
           /\ \A row \in Rows :
                 /\ row.state = "due"
                 /\ row.response = None
                 /\ row.due >= Val(db.started) \/ Val(ends) < Val(db.started)
           /\ \A row \in BagToSet(pre.due) :
                 row.state # "due" => row \notin Rows

C19_Witness ==
    \E p \in Pollers :
        /\ Succeeded(p, "start", "start")
        /\ \E row \in BagToSet(pre.due) : row.response # None
        /\ \E row \in BagToSet(pre.due) : row.state = "due"
        /\ pre.started # None
        /\ Val(pre.started) < Val(db.started)
        /\ N * M >= 2

TypeOK ==
    /\ db.status \in STATUS_CHOICES \cup {StatusDefault}
    /\ \A row \in BagToSet(due_datapoints) : row.state \in STATE_CHOICES

====
